---- MODULE Spec2Model ----
(***************************************************************************)
(* tokio-proxy: an HTTP CONNECT tunnelling proxy.                          *)
(*                                                                         *)
(* The model follows the accept loop of main.rs, the per-connection        *)
(* pipeline of request_processor.rs and tunnel.rs (decode, policy gate,    *)
(* dial, status response, relay), the codec of http_codec.rs and the       *)
(* duplex relay of data_transfer.rs.                                       *)
(*                                                                         *)
(* Encoding of Rust values:                                                *)
(*   Option<T>      None is << >>, Some(v) is <<v>>                        *)
(*   Result<T, E>   Ok is <<"Ok", ...>>, Err(e) is <<"Err", ...>>          *)
(*   enum variants  tuples of strings, e.g. <<"Forbidden">> or             *)
(*                  <<"RequestDecodeError", "NotSupportedMethod">>         *)
(***************************************************************************)
EXTENDS Integers, Sequences, FiniteSets, TLC

(***************************************************************************)
(* Bounds of the model.                                                    *)
(***************************************************************************)
\* capacity of the permit pool (main.rs sets MAX_OPEN_CONNECTIONS to 10000)
MaxOpenConnections == 1

\* largest byte count one relay direction copies
MaxBytes == 1

\* the listener hands out one connection more than the pool has permits
NumConns == MaxOpenConnections + 1

Conns == 1..NumConns

(***************************************************************************)
(* Program constants.                                                      *)
(***************************************************************************)
MAX_HTTP_CONNECT_REQUEST_SIZE == 2048

\* request targets: opaque strings
Targets == {"a.gfycat.com:443", "evil.example:443"}

\* the targets the configured regular expression matches
Matched == {"a.gfycat.com:443"}

None == << >>

Some(v) == <<v>>

IsSome(o) == Len(o) = 1

Unwrap(o) == o[1]

(***************************************************************************)
(* config.rs: the site list and the configurations the server may be       *)
(* started with.                                                           *)
(***************************************************************************)
ProxySiteList == [regex : {Matched}, operate_as_white_list : BOOLEAN]

Configs == {None} \cup {Some(l) : l \in ProxySiteList}

contains(list, site) == site \in list.regex

is_white_list(list) == list.operate_as_white_list

\* the target connection providers process() may be instantiated with:
\* the production one, and any other implementation of the trait
Providers == {"Default", "Custom"}

(***************************************************************************)
(* errors.rs                                                               *)
(***************************************************************************)
BadRequest == <<"BadRequest">>

RequestTimeout == <<"RequestTimeout">>

GatewayTimeout == <<"GatewayTimeout">>

BadGateway == <<"BadGateway">>

Forbidden == <<"Forbidden">>

InternalError == <<"InternalError">>

RequestDecodeError(d) == <<"RequestDecodeError">> \o d

RequestSizeTooBig == <<"RequestSizeTooBig">>

NotSupportedMethod == <<"NotSupportedMethod">>

NotSupportedHTTPVersion == <<"NotSupportedHTTPVersion">>

ParseError == <<"ParseError">>

ServerError(kind) == <<"ServerError", kind>>

\* From<std::io::Error> for HttpTunnelRequestDecodeError
FromIoError(kind) == ServerError(kind)

(***************************************************************************)
(* http_codec.rs: the decoder.  The buffer is described by what httparse   *)
(* reports for it: the parse status, the method, the minor version and the *)
(* path of the request line, and the number of buffered bytes.             *)
(***************************************************************************)
Ok == <<"Ok">>

Err(e) == <<"Err">> \o e

IsOk(r) == r[1] = "Ok"

IsErr(r) == r[1] = "Err"

ErrOf(r) == Tail(r)

check_method(m) ==
    IF m = "CONNECT" THEN Ok ELSE Err(NotSupportedMethod)

\* variant: a buffer of exactly the maximum size is too big
check_size_strict(s) ==
    IF s < MAX_HTTP_CONNECT_REQUEST_SIZE THEN Ok ELSE Err(RequestSizeTooBig)

check_size(s) ==
    IF s <= MAX_HTTP_CONNECT_REQUEST_SIZE THEN Ok ELSE Err(RequestSizeTooBig)

check_version(v) ==
    IF v = 1 THEN Ok ELSE Err(NotSupportedHTTPVersion)

\* variant: the size is checked before the method
decode_size_first(src) ==
    CASE src.parse = "Partial" -> Ok
      [] src.parse = "Error" -> Err(ParseError)
      [] OTHER ->
           IF IsErr(check_size(src.len)) THEN check_size(src.len)
           ELSE IF IsErr(check_method(src.method)) THEN check_method(src.method)
           ELSE IF IsErr(check_version(src.version)) THEN check_version(src.version)
           ELSE <<"Ok", src.path>>

\* Ok(None) is <<"Ok">>, Ok(Some(target)) is <<"Ok", target>>
decode(src) ==
    CASE src.parse = "Partial" -> Ok
      [] src.parse = "Error" -> Err(ParseError)
      [] OTHER ->
           IF IsErr(check_method(src.method)) THEN check_method(src.method)
           ELSE IF IsErr(check_size(src.len)) THEN check_size(src.len)
           ELSE IF IsErr(check_version(src.version)) THEN check_version(src.version)
           ELSE <<"Ok", src.path>>

Heads ==
    [parse : {"Complete"}, method : {"CONNECT", "GET"}, version : {0, 1},
     path : Targets,
     len : {MAX_HTTP_CONNECT_REQUEST_SIZE, MAX_HTTP_CONNECT_REQUEST_SIZE + 1}]

Garbage == [parse |-> "Error", method |-> "", version |-> 0, path |-> "", len |-> 1]

\* what the framed read side can yield for one call of next()
ClientInputs ==
    [k : {"frame"}, src : Heads \cup {Garbage}, kind : {""}]
      \cup [k : {"io_error"}, src : {Garbage}, kind : {"TimedOut", "ConnectionReset"}]
      \cup [k : {"eof"}, src : {Garbage}, kind : {""}]

\* Framed::next(): Some(Ok(target)) is <<"Some", "Ok", target>>,
\* Some(Err(e)) is <<"Some", "Err">> \o e, None is <<"None">>
next(in) ==
    CASE in.k = "eof" -> <<"None">>
      [] in.k = "io_error" -> <<"Some">> \o Err(FromIoError(in.kind))
      [] OTHER -> <<"Some">> \o decode(in.src)

(***************************************************************************)
(* http_codec.rs: the encoder.                                             *)
(***************************************************************************)
Success == <<"Success">>

Error(err) == <<"Error">> \o err

\* variant: Forbidden is answered like BadRequest
encode_forbidden_as_bad_request(item) ==
    LET err == Tail(item) IN
    CASE item = Success -> [code |-> 200, text |-> "OK"]
      [] err \in {BadRequest, Forbidden} -> [code |-> 400, text |-> "Bad Request"]
      [] err = RequestTimeout -> [code |-> 408, text |-> "Request Timeout"]
      [] err = GatewayTimeout -> [code |-> 504, text |-> "Gateway Timeout"]
      [] err = BadGateway -> [code |-> 502, text |-> "Bad Gateway"]
      [] err = RequestDecodeError(NotSupportedMethod) ->
           [code |-> 405, text |-> "Method Not allowed"]
      [] err = RequestDecodeError(RequestSizeTooBig) ->
           [code |-> 413, text |-> "Payload Too Large"]
      [] OTHER -> [code |-> 500, text |-> "Internal Server Error"]

encode(item) ==
    LET err == Tail(item) IN
    CASE item = Success -> [code |-> 200, text |-> "OK"]
      [] err = BadRequest -> [code |-> 400, text |-> "Bad Request"]
      [] err = Forbidden -> [code |-> 403, text |-> "Forbidden"]
      [] err = RequestTimeout -> [code |-> 408, text |-> "Request Timeout"]
      [] err = InternalError -> [code |-> 500, text |-> "Internal Error"]
      [] err = GatewayTimeout -> [code |-> 504, text |-> "Gateway Timeout"]
      [] err = BadGateway -> [code |-> 502, text |-> "Bad Gateway"]
      [] err = RequestDecodeError(NotSupportedHTTPVersion) ->
           [code |-> 400, text |-> "Bad Request"]
      [] err = RequestDecodeError(ParseError) ->
           [code |-> 400, text |-> "Bad Request"]
      [] err = RequestDecodeError(NotSupportedMethod) ->
           [code |-> 405, text |-> "Method Not allowed"]
      [] err = RequestDecodeError(RequestSizeTooBig) ->
           [code |-> 413, text |-> "Payload Too Large"]
      [] err = RequestDecodeError(ServerError("TimedOut")) ->
           [code |-> 408, text |-> "Request Timeout"]
      [] OTHER -> [code |-> 500, text |-> "Internal Server Error"]

\* dst.write_fmt(format_args!("HTTP/1.1 {} {}\r\n\r\n", code, status_text)):
\* the bytes written, as the pieces of the format string and its arguments
write_fmt(status) == <<"HTTP/1.1 ", status.code, " ", status.text, "\r\n\r\n">>

(***************************************************************************)
(* tunnel.rs: the decisions of process_tunnel_request and create_tunnel.   *)
(***************************************************************************)
\* the policy gate: config.white_list is the optional site list
policy_rejects(cfg, target) ==
    IsSome(cfg) /\ ~contains(Unwrap(cfg), target)

\* the outcomes the connect future of a provider can have
ConnectOutcomes == {Ok, Err(<<"TimedOut">>), Err(<<"ConnectionRefused">>)}

\* DefaultTargetConnectionProvider::connect: the TCP connect under a timeout;
\* tcp is Some(result of TcpStream::connect), or None when the timer fired
connect(tcp) ==
    IF IsSome(tcp) THEN Unwrap(tcp) ELSE Err(<<"TimedOut">>)

\* err.kind() of a connect result, "Ok" for a stream
kind_of(connect_result) ==
    IF IsOk(connect_result) THEN "Ok" ELSE ErrOf(connect_result)[1]

\* variant: the two arms of the match on err.kind() are exchanged
dial_result_swapped(connect_result) ==
    IF IsOk(connect_result) THEN Ok
    ELSE IF ErrOf(connect_result) = <<"TimedOut">> THEN Err(BadGateway)
    ELSE Err(GatewayTimeout)

\* match connect_result_with_timeout
dial_result(connect_result) ==
    IF IsOk(connect_result) THEN Ok
    ELSE IF ErrOf(connect_result) = <<"TimedOut">> THEN Err(GatewayTimeout)
    ELSE Err(BadGateway)

\* match decoded_request_result (the Ok arm of the timeout)
decoded_result(decoded) ==
    CASE decoded[1] = "None" -> Err(BadRequest)
      [] decoded[2] = "Err" -> Err(RequestDecodeError(SubSeq(decoded, 3, Len(decoded))))
      [] OTHER -> Ok

decoded_target(decoded) ==
    IF decoded[1] = "Some" /\ decoded[2] = "Ok" THEN Some(decoded[3]) ELSE None

\* variant: the sink is always handed Success
request_result_always_success(tunnel_request_result) == Success

\* the item handed to the sink
request_result(tunnel_request_result) ==
    IF IsOk(tunnel_request_result) THEN Success
    ELSE Error(ErrOf(tunnel_request_result))

\* the halves of Framed::split() of connection c
write_sink(c) == [pair |-> c]

read_stream(c) == [pair |-> c]

reunite(sink, stream) ==
    IF sink.pair = stream.pair THEN Ok ELSE Err(<<"ReuniteError">>)

\* the client bytes that can sit in Framed's read buffer behind the request
\* head: the client need not wait for the status line, and the read that
\* completed the head took whatever had arrived.  Nothing looks at the buffer
\* between next() and into_inner(), where the model records it
EarlyBytes == {[i \in 1..n |-> i] : n \in 0..MaxBytes}

\* the Framed that reunite returns: the client socket and the read buffer
framed_union(c, buffered) == [io |-> c, read_buf |-> buffered]

\* Framed::into_inner: the underlying stream alone.  pending is what the
\* returned stream yields ahead of fresh socket bytes: the read buffer stays
\* behind in the consumed Framed
into_inner(framed) == [io |-> framed.io, pending |-> << >>]

WriteOutcomes == {"Ok", "Err", "Elapsed"}

\* variant: a failed write of the status line is not noticed
tunnel_result_ignoring_write_error(c, written, tunnel_request_result) ==
    CASE written = "Elapsed" -> Err(RequestTimeout)
      [] OTHER ->
           IF IsOk(tunnel_request_result)
           THEN IF IsOk(reunite(write_sink(c), read_stream(c)))
                THEN Ok
                ELSE Err(InternalError)
           ELSE tunnel_request_result

\* variant: the timer of the write is mapped like a failed write
tunnel_result_elapsed_as_bad_gateway(c, written, tunnel_request_result) ==
    CASE written \in {"Elapsed", "Err"} -> Err(BadGateway)
      [] OTHER ->
           IF IsOk(tunnel_request_result)
           THEN IF IsOk(reunite(write_sink(c), read_stream(c)))
                THEN Ok
                ELSE Err(InternalError)
           ELSE tunnel_request_result

\* match response_relayed_result_with_timeout: Ok is Ok(Tunnel)
tunnel_result(c, written, tunnel_request_result) ==
    CASE written = "Elapsed" -> Err(RequestTimeout)
      [] written = "Err" -> Err(BadGateway)
      [] OTHER ->
           IF IsOk(tunnel_request_result)
           THEN IF IsOk(reunite(write_sink(c), read_stream(c)))
                THEN Ok
                ELSE Err(InternalError)
           ELSE tunnel_request_result

(***************************************************************************)
(* data_transfer.rs: the builder and the summary of a relay.               *)
(***************************************************************************)
DataTransferBuilder_new ==
    [result |-> "Succeeded",
     upstream_bytes_received |-> None,
     downstream_bytes_sent |-> None,
     upstream_error |-> None,
     downstream_error |-> None]

error_match(kind) ==
    IF kind = "ConnectionAborted" THEN "ConnectionClosed" ELSE "Failed"

upstream_bytes_received(b, bytes) ==
    [b EXCEPT !.upstream_bytes_received = Some(bytes)]

\* variant: the downstream count is stored in the upstream field
downstream_bytes_sent_as_upstream(b, bytes) ==
    [b EXCEPT !.upstream_bytes_received = Some(bytes)]

downstream_bytes_sent(b, bytes) ==
    [b EXCEPT !.downstream_bytes_sent = Some(bytes)]

upstream_error(b, kind) ==
    [b EXCEPT !.upstream_error = Some(kind), !.result = error_match(kind)]

downstream_error(b, kind) ==
    [b EXCEPT !.downstream_error = Some(kind), !.result = error_match(kind)]

\* the state of one relay direction task; once ended, what its join handle
\* yields: a clean end with n bytes, an i/o error, the TTL, or a JoinError
NoTask == [st |-> "none", n |-> 0, kind |-> ""]

Running == [st |-> "running", n |-> 0, kind |-> ""]

Endings ==
    [st : {"eof"}, n : 0..MaxBytes, kind : {""}]
      \cup [st : {"err"}, n : {0}, kind : {"ConnectionAborted", "ConnectionReset"}]
      \cup [st : {"ttl", "panic", "cancelled"}, n : {0}, kind : {""}]

\* Err(Elapsed) of timeout(tunnel_ttl, ..)
TtlElapsed == [st |-> "ttl", n |-> 0, kind |-> ""]

\* what a copy can end with before the TTL: pipe.run() returns, or the task
\* panics or is aborted
CopyEndings == Endings \ {TtlElapsed}

IsJoinError(d) == d.st \in {"panic", "cancelled"}

HasEnded(d) == d.st \notin {"none", "running"}

\* match upstream_res_timeout
match_upstream(b, up) ==
    CASE up.st = "eof" -> upstream_bytes_received(b, up.n)
      [] up.st = "err" -> upstream_error(b, up.kind)
      [] OTHER -> upstream_error(b, "ConnectionAborted")

\* match downstream_res_timeout
match_downstream(b, down) ==
    CASE down.st = "eof" -> downstream_bytes_sent(b, down.n)
      [] down.st = "err" -> downstream_error(b, down.kind)
      [] OTHER -> upstream_error(b, "ConnectionAborted")

\* tokio::try_join!(down_stream_handle, upstream_task_handle) resolves when
\* both handles have yielded, or as soon as one yields a JoinError
join_ready(down, up) ==
    \/ HasEnded(down) /\ HasEnded(up)
    \/ IsJoinError(down)
    \/ IsJoinError(up)

\* the JoinError try_join! returns: the handles are polled in order
join_error(down, up) ==
    IF IsJoinError(down) THEN down ELSE up

\* variant: on a JoinError the outputs that did arrive are still recorded
data_transfer_result_keeping_counts(down, up) ==
    IF IsJoinError(down) \/ IsJoinError(up)
    THEN <<"Ok", [DataTransferBuilder_new EXCEPT
                    !.result = IF join_error(down, up).st = "cancelled"
                               THEN "Cancelled" ELSE "Panicked",
                    !.upstream_bytes_received =
                       IF up.st = "eof" THEN Some(up.n) ELSE None,
                    !.downstream_bytes_sent =
                       IF down.st = "eof" THEN Some(down.n) ELSE None]>>
    ELSE <<"Ok", match_downstream(match_upstream(DataTransferBuilder_new, up), down)>>

\* initiate_full_duplex_data_transfer, from the join on: Ok(DataTransfer)
data_transfer_result(down, up) ==
    IF IsJoinError(down) \/ IsJoinError(up)
    THEN <<"Ok", [DataTransferBuilder_new EXCEPT !.result =
                     IF join_error(down, up).st = "cancelled"
                     THEN "Cancelled" ELSE "Panicked"]>>
    ELSE <<"Ok", match_downstream(match_upstream(DataTransferBuilder_new, up), down)>>

(***************************************************************************)
(* request_processor.rs: the RequestResult (id and duration left out).     *)
(***************************************************************************)
\* variant: the target is left out of a failed result
failed_result_without_target(err, target) ==
    <<"Ok", [tunnel_request_error |-> Some(err),
             data_transfer |-> None,
             target_address |-> None]>>

\* the Err arm of match tunnel_creation_result
failed_result(err, target) ==
    <<"Ok", [tunnel_request_error |-> Some(err),
             data_transfer |-> None,
             target_address |-> target]>>

\* variant: a panicked relay makes process() return Err
relayed_result_propagating(transfer, target) ==
    IF IsOk(transfer) /\ transfer[2].result # "Panicked"
    THEN <<"Ok", [tunnel_request_error |-> None,
                  data_transfer |-> Some(transfer[2]),
                  target_address |-> target]>>
    ELSE <<"Err">>

\* variant: a relay that did not succeed also reports a request error
relayed_result_with_error(transfer, target) ==
    <<"Ok", [tunnel_request_error |->
                IF transfer[2].result = "Succeeded" THEN None ELSE Some(InternalError),
             data_transfer |-> Some(transfer[2]),
             target_address |-> target]>>

\* the Ok arm: result.map(|res| RequestResult {..})
relayed_result(transfer, target) ==
    IF IsOk(transfer)
    THEN <<"Ok", [tunnel_request_error |-> None,
                  data_transfer |-> Some(transfer[2]),
                  target_address |-> target]>>
    ELSE <<"Err">>

\* main.rs, match req_res: the records written to the request-result log
\* (the JSON serialization of the record is left to serde_json)
logged(req_res) ==
    IF IsOk(req_res) THEN 1 ELSE 0

(***************************************************************************)
(* State.                                                                  *)
(***************************************************************************)
VARIABLES
    config,            \* ProxyConfig.white_list, shared by all connections
    provider,          \* the TargetConnectionProvider handed to process(), drawn at its use
    permits,           \* available permits of connection_semaphore
    loop_pc,           \* the accept loop: "acquire", "accept" (holding a permit)
                       \* or "failed" (accept error, permit dropped, at the log)
    accepted,          \* streams the listener has handed out so far
    pc,                \* position of each connection task
    target_address,    \* Option<HttpTunnelTarget> of process_tunnel_request
    tunnel_request_result, \* Result of process_tunnel_request, None before it
    dialer,            \* the connect future: "resolving" or "suspended" while
                       \* pending, then the kind of result it returned
    response,          \* status code encoded for the client, 0 before the write
    written,           \* how the write of the status line ended, "" before it
    decode_succeeded,  \* whether next() yielded a target
    decode_timed_out,  \* whether the step timeout fired before next() resolved
    read_buf,          \* the client bytes behind the request head that were in
                       \* Framed's read buffer when create_tunnel consumed it
    source,            \* Tunnel.source: the client stream handed to the relay
    upstream,          \* the upstream relay task
    downstream,        \* the downstream relay task
    detached,          \* relay tasks that run on after their connection task ended
    result,            \* Option<RequestResult> returned by process()
    emitted,           \* RequestResults written to the request-result log
    steps,             \* the pipeline steps a live connection has taken, in order
    decode_src,        \* codec: the buffer handed to decode
    decode_out,        \* codec: what decode returned for it
    encode_item,       \* codec: the item handed to encode
    encode_dst         \* codec: what encode wrote for it

vars ==
    <<config, provider, permits, loop_pc, accepted, pc, target_address,
      tunnel_request_result, dialer, response, written, decode_succeeded,
      decode_timed_out, read_buf, source,
      upstream, downstream, detached, result, emitted, steps,
      decode_src, decode_out, encode_item, encode_dst>>

loop_vars == <<permits, loop_pc, accepted>>

relay_vars == <<upstream, downstream, detached>>

\* the Framed client stream of create_tunnel
framed_vars == <<decode_timed_out, read_buf, source>>

\* the codec on its own
codec_vars == <<decode_src, decode_out, encode_item, encode_dst>>

handshake_vars ==
    <<target_address, tunnel_request_result, dialer, response, written,
      decode_succeeded>>

Init ==
    /\ config \in Configs
    /\ provider = [c \in Conns |-> ""]
    /\ permits = MaxOpenConnections
    /\ loop_pc = "acquire"
    /\ accepted = 0
    /\ pc = [c \in Conns |-> "idle"]
    /\ target_address = [c \in Conns |-> None]
    /\ tunnel_request_result = [c \in Conns |-> None]
    /\ dialer = [c \in Conns |-> ""]
    /\ response = [c \in Conns |-> 0]
    /\ written = [c \in Conns |-> ""]
    /\ decode_succeeded = [c \in Conns |-> FALSE]
    /\ decode_timed_out = [c \in Conns |-> FALSE]
    /\ read_buf = [c \in Conns |-> << >>]
    /\ source = [c \in Conns |-> None]
    /\ upstream = [c \in Conns |-> NoTask]
    /\ downstream = [c \in Conns |-> NoTask]
    /\ detached = 0
    /\ result = [c \in Conns |-> None]
    /\ emitted = [c \in Conns |-> 0]
    /\ steps = [c \in Conns |-> << >>]
    /\ decode_src = None
    /\ decode_out = None
    /\ encode_item = None
    /\ encode_dst = None

(***************************************************************************)
(* main.rs: the accept loop.                                               *)
(***************************************************************************)
\* variant: a permit is handed out although none is available
can_acquire_unchecked(available) == available >= 0

\* Semaphore::acquire_owned resolves when a permit is available
can_acquire(available) == available > 0

Acquire ==
    /\ loop_pc = "acquire"
    /\ can_acquire(permits)
    /\ permits' = permits - 1
    /\ loop_pc' = "accept"
    /\ UNCHANGED <<codec_vars, framed_vars, config, provider, accepted, pc, handshake_vars, relay_vars,
                   result, emitted, steps>>

\* accept() yields a stream: the task is spawned and owns the permit
AcceptOk ==
    /\ loop_pc = "accept"
    /\ accepted < NumConns
    /\ accepted' = accepted + 1
    /\ pc' = [pc EXCEPT ![accepted + 1] = "decode"]
    /\ loop_pc' = "acquire"
    /\ UNCHANGED <<codec_vars, framed_vars, config, provider, permits, handshake_vars, relay_vars,
                   result, emitted, steps>>

\* variant: the Err arm keeps the permit it holds
drop_permit_forgotten(available) == available

\* drop(permit) hands the permit back to the semaphore
drop_permit(available) == available + 1

\* accept() yields an error: drop(permit), no task is spawned
AcceptErr ==
    /\ loop_pc = "accept"
    /\ permits' = drop_permit(permits)
    /\ loop_pc' = "failed"
    /\ UNCHANGED <<codec_vars, framed_vars, config, provider, accepted, pc, handshake_vars, relay_vars,
                   result, emitted, steps>>

\* the error is logged and the loop goes round to the next acquire
AcceptErrLogged ==
    /\ loop_pc = "failed"
    /\ loop_pc' = "acquire"
    /\ UNCHANGED <<codec_vars, framed_vars, config, provider, permits, accepted, pc, handshake_vars,
                   relay_vars, result, emitted, steps>>

(***************************************************************************)
(* tunnel.rs: process_tunnel_request.                                      *)
(***************************************************************************)
\* variant: a decoded request goes to the relay at once
after_decode_to_tunnel(decoded) ==
    IF IsOk(decoded_result(decoded)) THEN "tunnel" ELSE "respond"

\* where the handshake goes once next() has resolved
after_decode(decoded) ==
    IF IsOk(decoded_result(decoded)) THEN "policy" ELSE "respond"

\* read_stream.next() resolves within the step timeout
Decode(c) ==
    /\ pc[c] = "decode"
    /\ \E in \in ClientInputs :
         LET decoded == next(in) IN
         /\ target_address' = [target_address EXCEPT ![c] = decoded_target(decoded)]
         /\ tunnel_request_result' =
              [tunnel_request_result EXCEPT ![c] =
                 IF IsOk(decoded_result(decoded)) THEN None
                 ELSE Some(decoded_result(decoded))]
         /\ pc' = [pc EXCEPT ![c] = after_decode(decoded)]
         /\ decode_succeeded' =
              [decode_succeeded EXCEPT ![c] = in.k = "frame" /\ IsOk(decode(in.src))]
    /\ steps' = [steps EXCEPT ![c] = Append(@, "decode")]
    /\ UNCHANGED <<codec_vars, framed_vars, config, provider, loop_vars, dialer,
                   response, written, relay_vars, result, emitted>>

\* the step timeout fires before next() resolves
DecodeTimeout(c) ==
    /\ pc[c] = "decode"
    /\ tunnel_request_result' = [tunnel_request_result EXCEPT ![c] = Some(Err(RequestTimeout))]
    /\ pc' = [pc EXCEPT ![c] = "respond"]
    /\ decode_timed_out' = [decode_timed_out EXCEPT ![c] = TRUE]
    /\ steps' = [steps EXCEPT ![c] = Append(@, "decode")]
    /\ UNCHANGED <<codec_vars, read_buf, source, config, provider, loop_vars,
                   target_address, dialer, response, written, decode_succeeded,
                   relay_vars, result, emitted>>

\* the white list test; a permitted target is handed to the provider's connect
PolicyCheck(c) ==
    /\ pc[c] = "policy"
    /\ IF policy_rejects(config, Unwrap(target_address[c]))
       THEN /\ tunnel_request_result' =
                 [tunnel_request_result EXCEPT ![c] = Some(Err(Forbidden))]
            /\ pc' = [pc EXCEPT ![c] = "respond"]
            /\ steps' = [steps EXCEPT ![c] = Append(@, "policy")]
            /\ UNCHANGED <<dialer, provider>>
       ELSE /\ \E d \in {"resolving", "suspended"} : dialer' = [dialer EXCEPT ![c] = d]
            /\ \E p \in Providers : provider' = [provider EXCEPT ![c] = p]
            /\ pc' = [pc EXCEPT ![c] = "dial"]
            /\ steps' = [steps EXCEPT ![c] = Append(Append(@, "policy"), "dial")]
            /\ UNCHANGED tunnel_request_result
    /\ UNCHANGED <<codec_vars, framed_vars, config, loop_vars, target_address, response,
                   written, decode_succeeded, relay_vars, result, emitted>>

\* the provider's connect future resolves
DialReturn(c) ==
    /\ pc[c] = "dial"
    /\ dialer[c] = "resolving"
    /\ \E tcp \in ConnectOutcomes :
         LET connect_result == IF provider[c] = "Default" THEN connect(Some(tcp)) ELSE tcp
         IN  /\ tunnel_request_result' =
                  [tunnel_request_result EXCEPT ![c] = Some(dial_result(connect_result))]
             /\ dialer' = [dialer EXCEPT ![c] = kind_of(connect_result)]
    /\ pc' = [pc EXCEPT ![c] = "respond"]
    /\ provider' = [provider EXCEPT ![c] = ""]
    /\ steps' = [steps EXCEPT ![c] = Append(@, "dialed")]
    /\ UNCHANGED <<codec_vars, framed_vars, config, loop_vars, target_address, response,
                   written, decode_succeeded, relay_vars, result, emitted>>

\* the timer inside DefaultTargetConnectionProvider::connect fires
DialTimeout(c) ==
    /\ pc[c] = "dial"
    /\ provider[c] = "Default"
    /\ tunnel_request_result' =
         [tunnel_request_result EXCEPT ![c] = Some(dial_result(connect(None)))]
    /\ pc' = [pc EXCEPT ![c] = "respond"]
    /\ dialer' = [dialer EXCEPT ![c] = kind_of(connect(None))]
    /\ provider' = [provider EXCEPT ![c] = ""]
    /\ steps' = [steps EXCEPT ![c] = Append(@, "dialed")]
    /\ UNCHANGED <<codec_vars, framed_vars, config, loop_vars, target_address, response,
                   written, decode_succeeded, relay_vars, result, emitted>>

(***************************************************************************)
(* tunnel.rs: create_tunnel, and the Err arm of process().                 *)
(***************************************************************************)
\* variant: a status line that could not be written is written again
after_respond_retrying(tunnel) ==
    IF IsOk(tunnel) THEN "tunnel" ELSE "respond"

\* where create_tunnel leaves the task: with a Tunnel for the relay, or with
\* the error process() turns into the RequestResult
after_respond(tunnel) ==
    IF IsOk(tunnel) THEN "tunnel" ELSE "logged"

\* write_sink.send(request_result) under the step timeout: the status line
\* reaches the client, the write fails, or the timer fires first.  A failed
\* handshake or a failed write ends process(): main logs the RequestResult.
Respond(c) ==
    /\ pc[c] = "respond"
    /\ \E w \in WriteOutcomes :
         LET line == encode(request_result(Unwrap(tunnel_request_result[c])))
             tunnel == tunnel_result(c, w, Unwrap(tunnel_request_result[c]))
             req_res == failed_result(ErrOf(tunnel), target_address[c])
         IN  /\ response' = [response EXCEPT ![c] = line.code]
             /\ written' = [written EXCEPT ![c] = w]
             /\ pc' = [pc EXCEPT ![c] = after_respond(tunnel)]
             /\ IF IsOk(tunnel)
                THEN /\ \E buffered \in EarlyBytes :
                          /\ read_buf' = [read_buf EXCEPT ![c] = buffered]
                          /\ source' = [source EXCEPT ![c] =
                                          Some(into_inner(framed_union(c, buffered)))]
                     /\ UNCHANGED <<result, emitted>>
                ELSE /\ result' = [result EXCEPT ![c] = Some(req_res[2])]
                     /\ emitted' = [emitted EXCEPT ![c] = @ + logged(req_res)]
                     /\ UNCHANGED <<read_buf, source>>
    /\ steps' = [steps EXCEPT ![c] = Append(@, "respond")]
    /\ UNCHANGED <<codec_vars, decode_timed_out, config, provider, loop_vars,
                   target_address, tunnel_request_result, dialer,
                   decode_succeeded, relay_vars>>

(***************************************************************************)
(* data_transfer.rs: initiate_full_duplex_data_transfer.                   *)
(***************************************************************************)
\* the two copies are spawned, each under the tunnel TTL
RelayStart(c) ==
    /\ pc[c] = "tunnel"
    /\ upstream' = [upstream EXCEPT ![c] = Running]
    /\ downstream' = [downstream EXCEPT ![c] = Running]
    /\ pc' = [pc EXCEPT ![c] = "relay"]
    /\ read_buf' = [read_buf EXCEPT ![c] = << >>]
    /\ source' = [source EXCEPT ![c] = None]
    /\ steps' = [steps EXCEPT ![c] = Append(@, "relay")]
    /\ UNCHANGED <<codec_vars, decode_timed_out, config, provider, loop_vars,
                   handshake_vars, detached, result, emitted>>

\* variant: the copies are spawned without the timeout around pipe.run()
ttl_armed_never(task) == FALSE

\* timeout(tunnel_ttl, pipe.run()): the timer runs as long as the copy does
ttl_armed(task) == task = Running

\* the upstream copy ends before the TTL, while the connection task awaits
\* the join: end of stream, i/o error, panic or abort
UpstreamEnd(c) ==
    /\ pc[c] = "relay"
    /\ upstream[c] = Running
    /\ \E how \in CopyEndings : upstream' = [upstream EXCEPT ![c] = how]
    /\ UNCHANGED <<codec_vars, framed_vars, config, provider, loop_vars, pc,
                   handshake_vars, downstream, detached, result, emitted, steps>>

\* the downstream copy ends before the TTL
DownstreamEnd(c) ==
    /\ pc[c] = "relay"
    /\ downstream[c] = Running
    /\ \E how \in CopyEndings : downstream' = [downstream EXCEPT ![c] = how]
    /\ UNCHANGED <<codec_vars, framed_vars, config, provider, loop_vars, pc,
                   handshake_vars, upstream, detached, result, emitted, steps>>

\* the TTL of the upstream copy elapses
UpstreamTtl(c) ==
    /\ pc[c] = "relay"
    /\ ttl_armed(upstream[c])
    /\ upstream' = [upstream EXCEPT ![c] = TtlElapsed]
    /\ UNCHANGED <<codec_vars, framed_vars, config, provider, loop_vars, pc,
                   handshake_vars, downstream, detached, result, emitted, steps>>

\* the TTL of the downstream copy elapses
DownstreamTtl(c) ==
    /\ pc[c] = "relay"
    /\ ttl_armed(downstream[c])
    /\ downstream' = [downstream EXCEPT ![c] = TtlElapsed]
    /\ UNCHANGED <<codec_vars, framed_vars, config, provider, loop_vars, pc,
                   handshake_vars, upstream, detached, result, emitted, steps>>

\* a copy that try_join! left running ends after the join has returned or
\* was dropped: nothing awaits its handle, its output is dropped with it
LeftBehindEnd(c) ==
    /\ pc[c] \in {"logged", "cancelled"}
    /\ \/ /\ upstream[c] = Running
          /\ upstream' = [upstream EXCEPT ![c] = NoTask]
          /\ UNCHANGED downstream
       \/ /\ downstream[c] = Running
          /\ downstream' = [downstream EXCEPT ![c] = NoTask]
          /\ UNCHANGED upstream
    /\ UNCHANGED <<codec_vars, framed_vars, config, provider, loop_vars, pc,
                   handshake_vars, detached, result, emitted, steps>>

\* a copy that outlived its connection task ends
DetachedEnd ==
    /\ detached > 0
    /\ detached' = detached - 1
    /\ UNCHANGED <<codec_vars, framed_vars, config, provider, loop_vars, pc,
                   handshake_vars, upstream, downstream, result, emitted, steps>>

\* try_join! resolves; the summary is built, process() returns and main logs
Join(c) ==
    /\ pc[c] = "relay"
    /\ join_ready(downstream[c], upstream[c])
    /\ LET req_res == relayed_result(data_transfer_result(downstream[c], upstream[c]),
                                     target_address[c])
       IN  /\ result' = [result EXCEPT ![c] = IF IsOk(req_res) THEN Some(req_res[2]) ELSE None]
           /\ emitted' = [emitted EXCEPT ![c] = @ + logged(req_res)]
    /\ pc' = [pc EXCEPT ![c] = "logged"]
    /\ UNCHANGED <<codec_vars, framed_vars, config, provider, loop_vars, handshake_vars, relay_vars, steps>>

(***************************************************************************)
(* main.rs: the spawned task ends; its locals and its permit are dropped.  *)
(***************************************************************************)
\* dropping a JoinHandle detaches its task: the copies still running when
\* the connection task ends
still_running(c) ==
    (IF upstream[c] = Running THEN 1 ELSE 0) + (IF downstream[c] = Running THEN 1 ELSE 0)

TaskEnd(c) ==
    /\ pc[c] = "logged"
    /\ pc' = [pc EXCEPT ![c] = "done"]
    /\ permits' = permits + 1
    /\ target_address' = [target_address EXCEPT ![c] = None]
    /\ tunnel_request_result' = [tunnel_request_result EXCEPT ![c] = None]
    /\ response' = [response EXCEPT ![c] = 0]
    /\ written' = [written EXCEPT ![c] = ""]
    /\ decode_succeeded' = [decode_succeeded EXCEPT ![c] = FALSE]
    /\ dialer' = [dialer EXCEPT ![c] = ""]
    /\ upstream' = [upstream EXCEPT ![c] = NoTask]
    /\ downstream' = [downstream EXCEPT ![c] = NoTask]
    /\ detached' = detached + still_running(c)
    /\ result' = [result EXCEPT ![c] = None]
    /\ steps' = [steps EXCEPT ![c] = << >>]
    /\ decode_timed_out' = [decode_timed_out EXCEPT ![c] = FALSE]
    /\ read_buf' = [read_buf EXCEPT ![c] = << >>]
    /\ source' = [source EXCEPT ![c] = None]
    /\ UNCHANGED <<codec_vars, config, provider, loop_pc, accepted, emitted>>

\* the connection task is cancelled while it awaits try_join!: its future is
\* dropped at that await with everything it owns, the permit and the two
\* JoinHandles included.  Dropping a JoinHandle detaches the spawned task, so
\* the copies stay as they are; no summary is built and nothing is logged.
Cancel(c) ==
    /\ pc[c] = "relay"
    /\ pc' = [pc EXCEPT ![c] = "cancelled"]
    /\ permits' = permits + 1
    /\ target_address' = [target_address EXCEPT ![c] = None]
    /\ tunnel_request_result' = [tunnel_request_result EXCEPT ![c] = None]
    /\ UNCHANGED <<codec_vars, framed_vars, config, provider, loop_pc, accepted,
                   dialer, response, written, decode_succeeded, relay_vars,
                   result, emitted, steps>>

Next ==
    \/ Acquire
    \/ AcceptOk
    \/ AcceptErr
    \/ AcceptErrLogged
    \/ \E c \in Conns : Decode(c)
    \/ \E c \in Conns : DecodeTimeout(c)
    \/ \E c \in Conns : PolicyCheck(c)
    \/ \E c \in Conns : DialReturn(c)
    \/ \E c \in Conns : DialTimeout(c)
    \/ \E c \in Conns : Respond(c)
    \/ \E c \in Conns : RelayStart(c)
    \/ \E c \in Conns : UpstreamEnd(c)
    \/ \E c \in Conns : DownstreamEnd(c)
    \/ \E c \in Conns : UpstreamTtl(c)
    \/ \E c \in Conns : DownstreamTtl(c)
    \/ \E c \in Conns : Join(c)
    \/ \E c \in Conns : LeftBehindEnd(c)
    \/ DetachedEnd
    \/ \E c \in Conns : TaskEnd(c)

Spec == Init /\ [][Next]_vars

\* the program with connection tasks that may be cancelled from outside
CancelNext ==
    \/ Next
    \/ \E c \in Conns : Cancel(c)

CancelSpec == Init /\ [][CancelNext]_vars

\* the steps of one connection task and of its relay tasks
Step(c) ==
    \/ Decode(c)
    \/ DecodeTimeout(c)
    \/ PolicyCheck(c)
    \/ DialReturn(c)
    \/ DialTimeout(c)
    \/ Respond(c)
    \/ RelayStart(c)
    \/ UpstreamEnd(c)
    \/ DownstreamEnd(c)
    \/ UpstreamTtl(c)
    \/ DownstreamTtl(c)
    \/ Join(c)
    \/ LeftBehindEnd(c)
    \/ TaskEnd(c)

\* the steps of connection c that do not wait for a peer: the timers, the
\* policy test, the write under its timer, and the code that runs once a
\* future has resolved
Progress(c) ==
    \/ DecodeTimeout(c)
    \/ PolicyCheck(c)
    \/ DialTimeout(c)
    \/ Respond(c)
    \/ RelayStart(c)
    \/ UpstreamTtl(c)
    \/ DownstreamTtl(c)
    \/ Join(c)
    \/ TaskEnd(c)

\* the executor runs every ready task and every armed timer fires; the accept
\* loop obtains a permit that stays available.  What the peers do (send a
\* request, answer a dial, close a stream) is not assumed to happen.
FairSpec ==
    /\ Spec
    /\ WF_vars(Acquire)
    /\ WF_vars(AcceptErrLogged)
    /\ \A c \in Conns : WF_vars(Progress(c))

(***************************************************************************)
(* http_codec.rs on its own: decode applied to a buffer, encode applied to *)
(* an item, and the answer to a buffer that decode rejects.                *)
(***************************************************************************)
\* the buffers decode can be handed: what httparse reports, and the length
Buffers ==
    [parse : {"Partial", "Complete", "Error"},
     method : {"CONNECT", "GET", "connect"}, version : {0, 1}, path : Targets,
     len : {1, MAX_HTTP_CONNECT_REQUEST_SIZE, MAX_HTTP_CONNECT_REQUEST_SIZE + 1}]

\* every value of HttpTunnelRequestResult
TunnelRequestResults ==
    {Success} \cup
    {Error(e) : e \in
       {BadRequest, RequestTimeout, GatewayTimeout, BadGateway, Forbidden,
        InternalError} \cup
       {RequestDecodeError(d) : d \in
          {RequestSizeTooBig, NotSupportedMethod, NotSupportedHTTPVersion,
           ParseError, ServerError("TimedOut"), ServerError("ConnectionReset")}}}

CodecDecode ==
    /\ \E b \in Buffers :
         /\ decode_src' = Some(b)
         /\ decode_out' = Some(decode(b))
    /\ encode_item' = None
    /\ encode_dst' = None
    /\ UNCHANGED <<config, provider, loop_vars, pc, handshake_vars, framed_vars,
                   relay_vars, result, emitted, steps>>

\* the status line for a buffer that decode rejected
CodecReply ==
    /\ IsSome(decode_out)
    /\ IsErr(Unwrap(decode_out))
    /\ encode_item = None
    /\ LET answer == request_result(decoded_result(<<"Some">> \o Unwrap(decode_out)))
       IN  /\ encode_item' = Some(answer)
           /\ encode_dst' = Some(write_fmt(encode(answer)))
    /\ UNCHANGED <<decode_src, decode_out, config, provider, loop_vars, pc, handshake_vars,
                   framed_vars, relay_vars, result, emitted, steps>>

CodecEncode ==
    /\ \E i \in TunnelRequestResults :
         /\ encode_item' = Some(i)
         /\ encode_dst' = Some(write_fmt(encode(i)))
    /\ decode_src' = None
    /\ decode_out' = None
    /\ UNCHANGED <<config, provider, loop_vars, pc, handshake_vars, framed_vars,
                   relay_vars, result, emitted, steps>>

CodecNext ==
    \/ CodecDecode
    \/ CodecReply
    \/ CodecEncode

CodecSpec == Init /\ [][CodecNext]_vars

(***************************************************************************)
(* Properties.                                                             *)
(***************************************************************************)
\* connection c has taken the step
Did(c, step) == \E i \in DOMAIN steps[c] : steps[c][i] = step

\* the status code of the line the client received in full, 0 if none
client_received(c) == IF written[c] = "Ok" THEN response[c] ELSE 0

\* the connection tasks that have been spawned and have not ended
LiveTasks == {c \in Conns : pc[c] \notin {"idle", "done"}}

\* C1: every connection task emits exactly one RequestResult: none before
\* process() has returned, one from then on, and never a second one,
\* whichever way the handshake or the relay ended.
C1_ExactlyOneRequestResult ==
    \A c \in Conns :
      /\ emitted[c] <= 1
      /\ pc[c] \in {"logged", "done"} => emitted[c] = 1
      /\ pc[c] \notin {"logged", "done"} => emitted[c] = 0

\* a relay direction panicked and the one RequestResult was emitted all the same
C1_Witness ==
    \E c \in Conns :
      /\ pc[c] = "logged"
      /\ emitted[c] = 1
      /\ IsSome(Unwrap(result[c]).data_transfer)
      /\ Unwrap(Unwrap(result[c]).data_transfer).result = "Panicked"

\* C2: the number of live connection tasks never exceeds the capacity of
\* the permit pool.
C2_LiveTasksBounded ==
    Cardinality(LiveTasks) <= MaxOpenConnections

\* the pool is exhausted by live tasks while the loop waits for a permit
\* and the listener has more connections to hand out
C2_Witness ==
    /\ Cardinality(LiveTasks) = MaxOpenConnections
    /\ permits = 0
    /\ loop_pc = "acquire"
    /\ accepted < NumConns

\* C3: the relay is started only for a connection whose client received
\* 200 OK; a client that received 200 OK has its relay started, the only
\* state in between being the hand-over from create_tunnel to the relay;
\* so when the RequestResult is emitted, 200 was received iff the relay ran.
C3_RelayIffOk ==
    \A c \in Conns :
      /\ Did(c, "relay") => client_received(c) = 200
      /\ client_received(c) = 200 /\ ~Did(c, "relay") => pc[c] = "tunnel"
      /\ pc[c] = "logged" => (client_received(c) = 200 <=> Did(c, "relay"))

\* one connection ended after 200 OK and a relay
C3_Witness ==
    \E c \in Conns :
      pc[c] = "logged" /\ client_received(c) = 200 /\ Did(c, "relay")

Rank(step) ==
    CASE step = "decode" -> 1
      [] step = "policy" -> 2
      [] step = "dial" -> 3
      [] step = "dialed" -> 4
      [] step = "respond" -> 5
      [] OTHER -> 6

\* C4: the steps of one connection are taken in the order decode, policy
\* check, dial, status response, relay: each step taken comes after all the
\* earlier ones that were taken, no policy check without a decode, no dial
\* without a policy check, no response before the decode has resolved and
\* no relay without a completed dial and a response.
C4_StepOrder ==
    \A c \in Conns :
      /\ \A i, j \in DOMAIN steps[c] :
           i < j => Rank(steps[c][i]) < Rank(steps[c][j])
      /\ Did(c, "policy") => Did(c, "decode")
      /\ Did(c, "dial") => Did(c, "policy")
      /\ Did(c, "dialed") => Did(c, "dial")
      /\ Did(c, "respond") => Did(c, "decode")
      /\ Did(c, "relay") => Did(c, "dialed") /\ Did(c, "respond")

\* a connection went through all the steps
C4_Witness ==
    \E c \in Conns :
      steps[c] = <<"decode", "policy", "dial", "dialed", "respond", "relay">>

\* C5: once the decode step has resolved, the target is known iff the
\* decoder yielded a target, and the RequestResult carries exactly that.
C5_TargetIffDecoded ==
    \A c \in Conns :
      /\ Did(c, "decode") => (IsSome(target_address[c]) <=> decode_succeeded[c])
      /\ IsSome(result[c]) =>
           /\ IsSome(Unwrap(result[c]).target_address) <=> decode_succeeded[c]
           /\ Unwrap(result[c]).target_address = target_address[c]

\* a result that carries the target although the write of the response failed
C5_Witness ==
    \E c \in Conns :
      /\ IsSome(result[c])
      /\ decode_succeeded[c]
      /\ written[c] = "Err"
      /\ IsSome(Unwrap(result[c]).target_address)

\* C6: a RequestResult carries either a request error or a transfer
\* summary, never both and never neither; it carries the summary iff the
\* relay ran, and then the client had received 200 OK.
C6_ErrorXorTransfer ==
    \A c \in Conns :
      IsSome(result[c]) =>
        LET r == Unwrap(result[c]) IN
        /\ IsSome(r.tunnel_request_error) # IsSome(r.data_transfer)
        /\ IsSome(r.data_transfer) <=> Did(c, "relay")
        /\ IsSome(r.data_transfer) => written[c] = "Ok" /\ response[c] = 200

\* a result with a transfer summary whose relay did not succeed
C6_Witness ==
    \E c \in Conns :
      /\ IsSome(result[c])
      /\ IsSome(Unwrap(result[c]).data_transfer)
      /\ Unwrap(Unwrap(result[c]).data_transfer).result = "Failed"

\* the decision the policy gate is to take
PolicyAccepts(cfg, target) ==
    IF cfg = None THEN TRUE
    ELSE IF is_white_list(Unwrap(cfg)) THEN contains(Unwrap(cfg), target)
    ELSE ~contains(Unwrap(cfg), target)

\* C7: after the policy check a target goes on to the dial iff there is no
\* site list, or the list is an allow list and matches the target, or the
\* list is a deny list and does not match it.
C7_PolicyGate ==
    \A c \in Conns :
      Did(c, "policy") =>
        (Did(c, "dial") <=> PolicyAccepts(config, Unwrap(target_address[c])))

\* the policy check of connection c has rejected its target
Rejected(c) ==
    Did(c, "policy") /\ policy_rejects(config, Unwrap(target_address[c]))

\* C8 as claimed: a rejected target is never dialled and never relayed, the
\* client receives 403 and the RequestResult carries Forbidden and the target.
C8_RejectedIsForbidden ==
    \A c \in Conns :
      Rejected(c) =>
        /\ ~Did(c, "dial") /\ ~Did(c, "relay")
        /\ IsSome(result[c]) =>
             /\ client_received(c) = 403
             /\ Unwrap(result[c]).tunnel_request_error = Some(Forbidden)
             /\ Unwrap(result[c]).target_address = target_address[c]

\* C8: a rejected target is never dialled and never relayed; the status line
\* written towards the client is 403; the RequestResult carries the target
\* and no transfer summary, and its error is Forbidden when the write
\* succeeded, BadGateway when it failed and RequestTimeout when it timed out.
C8_RejectedIsForbiddenIfWritten ==
    \A c \in Conns :
      Rejected(c) =>
        /\ ~Did(c, "dial") /\ ~Did(c, "relay")
        /\ Did(c, "respond") => response[c] = 403
        /\ IsSome(result[c]) =>
             /\ Unwrap(result[c]).target_address = target_address[c]
             /\ IsSome(target_address[c])
             /\ Unwrap(result[c]).data_transfer = None
             /\ Unwrap(result[c]).tunnel_request_error =
                  Some(CASE written[c] = "Ok" -> Forbidden
                         [] written[c] = "Err" -> BadGateway
                         [] OTHER -> RequestTimeout)

\* a rejected target whose client received the 403
C8_Witness ==
    \E c \in Conns :
      /\ Rejected(c)
      /\ IsSome(result[c])
      /\ client_received(c) = 403
      /\ Unwrap(result[c]).tunnel_request_error = Some(Forbidden)

\* C9: once the provider's connect has returned an error, the outcome of
\* the handshake is GatewayTimeout, answered with 504, when the kind of the
\* error is TimedOut, and BadGateway, answered with 502, for any other
\* kind; no relay is started.
C9_DialErrorMapping ==
    \A c \in Conns :
      Did(c, "dialed") /\ dialer[c] # "Ok" =>
        /\ ~Did(c, "relay")
        /\ tunnel_request_result[c] =
             Some(Err(IF dialer[c] = "TimedOut" THEN GatewayTimeout ELSE BadGateway))
        /\ Did(c, "respond") =>
             response[c] = IF dialer[c] = "TimedOut" THEN 504 ELSE 502

\* a refused dial was answered with 502
C9_Witness ==
    \E c \in Conns :
      /\ Did(c, "respond")
      /\ dialer[c] = "ConnectionRefused"
      /\ response[c] = 502

\* C10: a connection whose dialer has suspended still leaves the dial and
\* has 504 written towards its client.
C10_DialBounded ==
    \A c \in Conns :
      (pc[c] = "dial" /\ dialer[c] = "suspended") ~> (response[c] = 504)

\* C11: when the step timeout fires before the request is decoded, the
\* handshake yields RequestTimeout with no target, 408 is the status encoded
\* for the client and no relay is started; when the step timeout fires
\* before the status line is written, process() returns a RequestResult
\* whose error is RequestTimeout and that has no transfer summary, and no
\* relay task exists, whatever the handshake had yielded (a successful dial
\* included).
C11_StepTimeouts ==
    \A c \in Conns :
      /\ decode_timed_out[c] =>
           /\ tunnel_request_result[c] = Some(Err(RequestTimeout))
           /\ target_address[c] = None
           /\ ~Did(c, "relay")
           /\ Did(c, "respond") => response[c] = 408
      /\ written[c] = "Elapsed" =>
           /\ pc[c] = "logged"
           /\ IsSome(result[c])
           /\ Unwrap(result[c]).tunnel_request_error = Some(RequestTimeout)
           /\ Unwrap(result[c]).data_transfer = None
           /\ ~Did(c, "relay")
           /\ upstream[c] = NoTask /\ downstream[c] = NoTask

\* the write of 200 after a successful dial ran into the step timeout
C11_Witness ==
    \E c \in Conns :
      /\ written[c] = "Elapsed"
      /\ dialer[c] = "Ok"
      /\ response[c] = 200
      /\ Unwrap(result[c]).tunnel_request_error = Some(RequestTimeout)

\* C12: a buffer that holds a complete request head is validated in the
\* order method, size, version, and the first check that fails is the error
\* decode returns: a method other than CONNECT gives NotSupportedMethod even
\* when the buffer is oversized or the version is wrong, an oversized
\* CONNECT gives RequestSizeTooBig even when the version is wrong, and only
\* a CONNECT of permitted size is checked for its version.
C12_ValidationOrder ==
    IsSome(decode_src) /\ Unwrap(decode_src).parse = "Complete" =>
      LET buf == Unwrap(decode_src)
          out == Unwrap(decode_out)
      IN  /\ buf.method # "CONNECT" => out = Err(NotSupportedMethod)
          /\ buf.method = "CONNECT" /\ buf.len > MAX_HTTP_CONNECT_REQUEST_SIZE =>
               out = Err(RequestSizeTooBig)
          /\ /\ buf.method = "CONNECT"
             /\ buf.len <= MAX_HTTP_CONNECT_REQUEST_SIZE
             /\ buf.version # 1
             => out = Err(NotSupportedHTTPVersion)
          /\ /\ buf.method = "CONNECT"
             /\ buf.len <= MAX_HTTP_CONNECT_REQUEST_SIZE
             /\ buf.version = 1
             => out = <<"Ok", buf.path>>

\* an oversized GET of HTTP/1.0 was rejected for its method
C12_Witness ==
    /\ IsSome(decode_src)
    /\ Unwrap(decode_src).parse = "Complete"
    /\ Unwrap(decode_src).method = "GET"
    /\ Unwrap(decode_src).len > MAX_HTTP_CONNECT_REQUEST_SIZE
    /\ Unwrap(decode_src).version = 0
    /\ Unwrap(decode_out) = Err(NotSupportedMethod)

\* C13: a CONNECT of HTTP/1.1 whose buffered bytes number exactly the
\* maximum request size is accepted and yields its target; with one byte
\* more it is rejected as RequestSizeTooBig and answered with status 413.
C13_SizeBoundary ==
    /\ IsSome(decode_src)
    /\ Unwrap(decode_src).parse = "Complete"
    /\ Unwrap(decode_src).method = "CONNECT"
    /\ Unwrap(decode_src).version = 1
    => LET buf == Unwrap(decode_src)
           out == Unwrap(decode_out)
       IN  /\ buf.len = MAX_HTTP_CONNECT_REQUEST_SIZE => out = <<"Ok", buf.path>>
           /\ buf.len = MAX_HTTP_CONNECT_REQUEST_SIZE + 1 =>
                /\ out = Err(RequestSizeTooBig)
                /\ IsSome(encode_dst) => Unwrap(encode_dst)[2] = 413

\* a CONNECT of 2049 buffered bytes was answered with 413
C13_Witness ==
    /\ IsSome(decode_src)
    /\ Unwrap(decode_src).parse = "Complete"
    /\ Unwrap(decode_src).method = "CONNECT"
    /\ Unwrap(decode_src).version = 1
    /\ Unwrap(decode_src).len = MAX_HTTP_CONNECT_REQUEST_SIZE + 1
    /\ IsSome(encode_dst)
    /\ Unwrap(encode_dst)[2] = 413

\* the status table of the encoder's contract
StatusTable(item) ==
    LET err == Tail(item) IN
    CASE item = Success -> [code |-> 200, text |-> "OK"]
      [] err = BadRequest -> [code |-> 400, text |-> "Bad Request"]
      [] err = Forbidden -> [code |-> 403, text |-> "Forbidden"]
      [] err = RequestDecodeError(NotSupportedMethod) ->
           [code |-> 405, text |-> "Method Not allowed"]
      [] err = RequestTimeout -> [code |-> 408, text |-> "Request Timeout"]
      [] err = RequestDecodeError(RequestSizeTooBig) ->
           [code |-> 413, text |-> "Payload Too Large"]
      [] err = BadGateway -> [code |-> 502, text |-> "Bad Gateway"]
      [] err = GatewayTimeout -> [code |-> 504, text |-> "Gateway Timeout"]
      [] err \in {RequestDecodeError(NotSupportedHTTPVersion),
                  RequestDecodeError(ParseError)} ->
           [code |-> 400, text |-> "Bad Request"]
      [] err = RequestDecodeError(ServerError("TimedOut")) ->
           [code |-> 408, text |-> "Request Timeout"]
      [] OTHER -> [code |-> 500, text |-> "Internal Server Error"]

\* C14: for every item, encode writes exactly the status line
\* "HTTP/1.1 <code> <reason>" and the empty header section, with the code
\* and the reason of the status table (InternalError: 500 Internal Server
\* Error).
C14_StatusLine ==
    IsSome(encode_item) =>
      Unwrap(encode_dst) =
        <<"HTTP/1.1 ", StatusTable(Unwrap(encode_item)).code, " ",
          StatusTable(Unwrap(encode_item)).text, "\r\n\r\n">>

\* the transfer summary in the RequestResult of connection c
Summary(c) == Unwrap(Unwrap(result[c]).data_transfer)

\* connection c has returned from a relay both of whose copies ended without
\* panic or abort
RelayedBothWays(c) ==
    /\ pc[c] = "logged"
    /\ HasEnded(upstream[c]) /\ ~IsJoinError(upstream[c])
    /\ HasEnded(downstream[c]) /\ ~IsJoinError(downstream[c])

\* the outcome of one direction taken alone
DirectionOutcome(task) ==
    CASE task.st = "eof" -> "Succeeded"
      [] task.st = "err" -> error_match(task.kind)
      [] task.st = "ttl" -> "ConnectionClosed"
      [] task.st = "cancelled" -> "Cancelled"
      [] OTHER -> "Panicked"

Priority(outcome) ==
    CASE outcome = "Panicked" -> 4
      [] outcome = "Cancelled" -> 3
      [] outcome = "Failed" -> 2
      [] outcome = "ConnectionClosed" -> 1
      [] OTHER -> 0

Highest(a, b) == IF Priority(a) >= Priority(b) THEN a ELSE b

\* C15: the outcome of a relay is the one of highest priority among the
\* outcomes of its two directions, in the order Panicked, Cancelled, Failed,
\* ConnectionClosed, Succeeded, for every combination of the two.
C15_OutcomeByPriority ==
    \A c \in Conns :
      pc[c] = "logged" /\ HasEnded(upstream[c]) /\ HasEnded(downstream[c]) =>
        Summary(c).result =
          Highest(DirectionOutcome(upstream[c]), DirectionOutcome(downstream[c]))

\* C16 as stated: when the upstream copy ended cleanly after N bytes and the
\* downstream copy ended after M bytes, the summary has upstream_bytes = N
\* and downstream_bytes = M and its outcome is ConnectionClosed, or
\* Succeeded when both ended cleanly.
C16_CleanClientClose ==
    \A c \in Conns :
      RelayedBothWays(c) /\ upstream[c].st = "eof" =>
        /\ Summary(c).upstream_bytes_received = Some(upstream[c].n)
        /\ Summary(c).downstream_bytes_sent = Some(downstream[c].n)
        /\ Summary(c).result \in {"ConnectionClosed", "Succeeded"}
        /\ downstream[c].st = "eof" => Summary(c).result = "Succeeded"

\* C16: when the upstream copy ended cleanly after N bytes, the summary has
\* upstream_bytes = N; when the downstream copy ended cleanly too, after M
\* bytes, downstream_bytes = M and the outcome is Succeeded; when it ended
\* with an error or by the TTL, downstream_bytes is absent and the outcome
\* is ConnectionClosed (ConnectionAborted, TTL) or Failed (other errors).
C16_CleanClientCloseCounts ==
    \A c \in Conns :
      RelayedBothWays(c) /\ upstream[c].st = "eof" =>
        /\ Summary(c).upstream_bytes_received = Some(upstream[c].n)
        /\ downstream[c].st = "eof" =>
             /\ Summary(c).downstream_bytes_sent = Some(downstream[c].n)
             /\ Summary(c).result = "Succeeded"
        /\ downstream[c].st # "eof" =>
             /\ Summary(c).downstream_bytes_sent = None
             /\ Summary(c).result = DirectionOutcome(downstream[c])

\* the client closed after one byte upstream while the target stayed open
\* until the TTL
C16_Witness ==
    \E c \in Conns :
      /\ RelayedBothWays(c)
      /\ upstream[c].st = "eof" /\ upstream[c].n = 1
      /\ downstream[c].st = "ttl"
      /\ Summary(c).upstream_bytes_received = Some(1)
      /\ Summary(c).result = "ConnectionClosed"

\* C17: the client stream in the Tunnel handed to the relay yields first the
\* client bytes Framed had buffered behind the request head, then fresh
\* socket bytes.
C17_BufferedBytesKept ==
    \A c \in Conns :
      pc[c] = "tunnel" => Unwrap(source[c]).pending = read_buf[c]

\* how often connection c has taken the step
Count(c, step) == Cardinality({i \in DOMAIN steps[c] : steps[c][i] = step})

\* C18: a connection task attempts the write of a status line at most once;
\* it has attempted it exactly once when it enters the relay or returns its
\* RequestResult, on every path; and no relay task exists, so no byte of the
\* target can reach the client, before that write.
C18_OneStatusLine ==
    \A c \in Conns :
      /\ Count(c, "respond") <= 1
      /\ pc[c] \in {"tunnel", "relay", "logged"} =>
           Count(c, "respond") = 1 /\ written[c] # ""
      /\ pc[c] \in {"decode", "policy", "dial", "respond"} =>
           /\ Count(c, "respond") = 0 /\ written[c] = ""
           /\ upstream[c] = NoTask /\ downstream[c] = NoTask

\* the downstream copy runs after the single write of 200
C18_Witness ==
    \E c \in Conns :
      /\ pc[c] = "relay"
      /\ downstream[c] = Running
      /\ Count(c, "respond") = 1
      /\ client_received(c) = 200

\* C19: a connection that has entered the relay eventually ends: its
\* RequestResult is emitted and its task, with the permit, is dropped, even
\* when neither peer sends a byte or closes.
C19_RelayEnds ==
    \A c \in Conns :
      (pc[c] = "relay") ~> (pc[c] = "done" /\ emitted[c] = 1 /\ c \notin LiveTasks)

\* a relay both of whose copies were ended by the TTL has returned
C19_Witness ==
    \E c \in Conns :
      /\ pc[c] = "logged"
      /\ upstream[c] = TtlElapsed
      /\ downstream[c] = TtlElapsed
      /\ emitted[c] = 1

\* C20: a TTL that elapses in one direction is recorded as ConnectionAborted
\* in the error slot of that direction: the downstream TTL sets
\* downstream_error, and leaves upstream_error alone.
C20_TtlInOwnSlot ==
    \A c \in Conns :
      RelayedBothWays(c) =>
        /\ upstream[c].st = "ttl" =>
             Summary(c).upstream_error = Some("ConnectionAborted")
        /\ downstream[c].st = "ttl" =>
             /\ Summary(c).downstream_error = Some("ConnectionAborted")
             /\ upstream[c].st = "eof" => Summary(c).upstream_error = None

\* connection c has returned from a relay whose join yielded a JoinError
RelayedWithJoinError(c) ==
    /\ pc[c] = "logged"
    /\ IsJoinError(upstream[c]) \/ IsJoinError(downstream[c])

\* C21: in the summary of a relay that was neither cancelled nor panicked
\* each direction has exactly one of its byte count and its error: the
\* count is present iff the copy of that direction ended with a clean end
\* of stream, and the error of that direction is then absent; after a
\* cancellation or a panic all four fields are absent.
C21_BytesXorError ==
    \A c \in Conns :
      /\ RelayedBothWays(c) =>
           /\ IsSome(Summary(c).upstream_bytes_received) <=> upstream[c].st = "eof"
           /\ IsSome(Summary(c).upstream_error) <=> upstream[c].st # "eof"
           /\ IsSome(Summary(c).downstream_bytes_sent) <=> downstream[c].st = "eof"
           /\ IsSome(Summary(c).downstream_error) <=> downstream[c].st # "eof"
      /\ RelayedWithJoinError(c) =>
           /\ Summary(c).upstream_bytes_received = None
           /\ Summary(c).upstream_error = None
           /\ Summary(c).downstream_bytes_sent = None
           /\ Summary(c).downstream_error = None

\* C22: when the relay has returned its summary neither copy task is still
\* running, and no copy task outlives the connection task that holds the
\* permit.
C22_BothEndedAtReturn ==
    /\ \A c \in Conns :
         pc[c] = "logged" => upstream[c] # Running /\ downstream[c] # Running
    /\ detached = 0

\* a copy of the relay of c panicked, and the join does not find a cancelled
\* downstream task first
PanicReported(c) ==
    /\ "panic" \in {upstream[c].st, downstream[c].st}
    /\ downstream[c].st # "cancelled"

C24_CancelStopsCopies ==
    \A c \in Conns :
        pc[c] = "cancelled" =>
            /\ upstream[c] # Running
            /\ downstream[c] # Running


\* the permits the accept loop holds: one between acquire and the outcome of
\* accept, none elsewhere
HeldByLoop == IF loop_pc = "accept" THEN 1 ELSE 0

\* C25: the free permits, the permits of the live connection tasks and the
\* permit of the accept loop add up to max_open_connections; after an accept
\* error the loop holds none, no task was spawned for the failed accept, and
\* the loop can go on to its next acquire.
C25_PermitsConserved ==
    /\ permits + Cardinality(LiveTasks) + HeldByLoop = MaxOpenConnections
    /\ Cardinality({c \in Conns : pc[c] # "idle"}) = accepted
    /\ loop_pc = "failed" => ENABLED AcceptErrLogged

\* an accept failed after an earlier connection was served: the permit is
\* back in the pool and the loop is on its way to the next acquire
C25_Witness ==
    /\ loop_pc = "failed"
    /\ accepted > 0
    /\ permits + Cardinality(LiveTasks) = MaxOpenConnections

\* C26: a buffer of a CONNECT request that holds more than the maximum
\* request size is rejected as RequestSizeTooBig and answered with 413,
\* whether its head is complete or still partial.
C26_SizeEnforced ==
    /\ IsSome(decode_src)
    /\ Unwrap(decode_src).parse \in {"Partial", "Complete"}
    /\ Unwrap(decode_src).method = "CONNECT"
    /\ Unwrap(decode_src).len > MAX_HTTP_CONNECT_REQUEST_SIZE
    => /\ Unwrap(decode_out) = Err(RequestSizeTooBig)
       /\ IsSome(encode_dst) => Unwrap(encode_dst)[2] = 413

\* the status code of the encoder for the outcome recorded in a RequestResult
RecordedCode(req_res) ==
    IF req_res.tunnel_request_error = None
    THEN encode(Success).code
    ELSE encode(Error(Unwrap(req_res.tunnel_request_error))).code

\* C27: in every RequestResult, when the status line was written in full the
\* code the client received is the encoder's code for the recorded outcome;
\* when the write failed the recorded error is BadGateway and when it timed
\* out RequestTimeout, whatever the handshake had ended with.
C27_ReceivedCodeIsRecorded ==
    \A c \in Conns :
      pc[c] = "logged" /\ Did(c, "respond") =>
        LET req_res == Unwrap(result[c]) IN
        /\ IsSome(result[c])
        /\ written[c] = "Ok" => response[c] = RecordedCode(req_res)
        /\ written[c] = "Err" => req_res.tunnel_request_error = Some(BadGateway)
        /\ written[c] = "Elapsed" =>
             req_res.tunnel_request_error = Some(RequestTimeout)

\* a client received 504 in full and the RequestResult records GatewayTimeout
C27_Witness ==
    \E c \in Conns :
      /\ pc[c] = "logged"
      /\ written[c] = "Ok"
      /\ response[c] = 504
      /\ Unwrap(result[c]).tunnel_request_error = Some(GatewayTimeout)

====
